---- MODULE Spec2Model ----
(***************************************************************************)
(* Multinode penalties of bioptim: construction (node validation, custom   *)
(* function hoisting, weight), the penalty list and its                    *)
(* prepare_multinode_penalties, the reservation / installation of a        *)
(* penalty's slot in the g_internal / J_internal pools, and the strategy   *)
(* functions (equality, com_equality, com_velocity_equality, custom).      *)
(*                                                                         *)
(* Python lists are 0-based: list_index is kept 0-based as in the code and *)
(* slot i of a pool is pool[i + 1] here.                                   *)
(***************************************************************************)
EXTENDS Integers, Sequences, FiniteSets, TLC

(* ------------------------------ bounds --------------------------------- *)
NumPenalties == 2
MaxPhases == 2
MaxPool == 3
MaxCalls == 2

Penalties == 1..NumPenalties

(* ------------------------------ values --------------------------------- *)
\* Python's None, for the fields of the model that hold a string.
None == "None"

\* A node argument: a member of the Node enum, or a value of another type.
\* val is the integer of an int (0 for the other kinds, 1 for the float 1.5
\* truncated, as only the type of a non-int matters to the code).
NodeMarker(name) == [kind |-> "Node", name |-> name, val |-> 0]
IntNode(i) == [kind |-> "int", name |-> "", val |-> i]
BoolNode == [kind |-> "bool", name |-> "True", val |-> 1]
StrNode == [kind |-> "str", name |-> "end", val |-> 0]
FloatNode == [kind |-> "float", name |-> "1.5", val |-> 1]

NodeValues ==
    {NodeMarker(n) : n \in {"START", "MID", "PENULTIMATE", "END", "ALL", "INTERMEDIATES"}}
        \cup {IntNode(i) : i \in -2..2}
        \cup {BoolNode, StrNode, FloatNode}

\* The weights a caller passes: 0 (a constraint) and a non-zero weight.
Weights == {0, 5}

\* The strategy argument: a member of MultinodePenaltyFcn, a member of
\* MultinodeObjectiveFcn, a plain callable, or None.
PenaltyFcn(name) == [enum |-> "MultinodePenaltyFcn", name |-> name]
ObjectiveFcn(name) == [enum |-> "MultinodeObjectiveFcn", name |-> name]
Callable(name) == [enum |-> "function", name |-> name]
NoFcn == [enum |-> "NoneType", name |-> None]

FcnNames == {"EQUALITY", "CUSTOM", "COM_EQUALITY", "COM_VELOCITY_EQUALITY"}

\* The values given to add: the four strategy tags of the list's enum and
\* two user functions.
UserFcns == {Callable("f"), Callable("g")}
StrategyValues == {PenaltyFcn(n) : n \in FcnNames} \cup UserFcns
ObjectiveStrategyValues == {ObjectiveFcn(n) : n \in FcnNames} \cup UserFcns

\* isinstance(x, MultinodePenaltyFcn)
IsMultinodePenaltyFcn(x) == x.enum = "MultinodePenaltyFcn"

\* isinstance(x, MultinodeObjectiveFcn)
IsMultinodeObjectiveFcn(x) == x.enum = "MultinodeObjectiveFcn"

\* first_node in (Node.START, Node.MID, Node.PENULTIMATE, Node.END)
InAllowedMarkers(node) ==
    node.kind = "Node" /\ node.name \in {"START", "MID", "PENULTIMATE", "END"}

\* isinstance(node, int): bool is a subclass of int.
IsInstanceInt(node) == node.kind \in {"int", "bool"}

\* Mutant: every member of Node is accepted, not only the four markers.
NodeRaises_AnyMarker(node) == node.kind # "Node" /\ ~IsInstanceInt(node)

\* The node check of MultinodePenalty.__init__, for one node: TRUE when it raises.
NodeRaises(node) == ~InAllowedMarkers(node) /\ ~IsInstanceInt(node)

(* --------------------------- construction ------------------------------ *)
NoObject == [cls |-> "NoObject"]

\* The list_index of an option that has no slot yet.
Unassigned == -1

\* An error is its type and the words of its message; NoError: none raised.
NoError == [type |-> None, msg |-> <<>>]

MsgNodes ==
    <<"Multi", "Node", "Penalty", "only", "works", "with", "Node.START,", "Node.MID,",
      "Node.PENULTIMATE,", "Node.END", "or", "a", "int.">>

\* MultinodePenalty.__init__: the outcome [raised, self]. list_index is the
\* attribute of the option base, -1 until a slot is reserved; it is kept in
\* the variable list_index.
MultinodePenalty__init__(cls, phase_first_idx, phase_second_idx, first_node, second_node, multinode_penalty, custom_function, weight, force_multinode) ==
    LET hoist == ~IsMultinodePenaltyFcn(multinode_penalty) /\ ~force_multinode
        fcn == IF hoist THEN multinode_penalty ELSE custom_function
        penalty == IF hoist THEN PenaltyFcn("CUSTOM") ELSE multinode_penalty
    IN  IF NodeRaises(first_node) \/ NodeRaises(second_node)
        THEN [raised |-> [type |-> "NotImplementedError", msg |-> MsgNodes],
              self |-> NoObject]
        ELSE [raised |-> NoError,
              self |-> [cls |-> cls,
                        type |-> penalty,
                        custom_function |-> fcn,
                        min_bound |-> 0,
                        max_bound |-> 0,
                        multinode_penalty |-> TRUE,
                        weight |-> weight,
                        quadratic |-> TRUE,
                        phase_first_idx |-> phase_first_idx,
                        phase_second_idx |-> phase_second_idx,
                        phase_pre_idx |-> phase_first_idx,
                        phase_post_idx |-> phase_second_idx,
                        first_node |-> first_node,
                        second_node |-> second_node,
                        dt |-> 1,
                        constraint_type |-> "INTERNAL"]]

\* MultinodeObjective.__init__: the Objective base receives weight, then
\* MultinodePenalty.__init__ runs with neither custom_function nor weight, so
\* with their defaults (None and 0), and sets the attributes last.
MultinodeObjective__init__(phase_first_idx, phase_second_idx, first_node, second_node, multinode_objective, custom_function, weight, force_multinode) ==
    MultinodePenalty__init__("MultinodeObjective", phase_first_idx, phase_second_idx,
                             first_node, second_node, multinode_objective, NoFcn, 0,
                             force_multinode)

(* ------------------------------- state --------------------------------- *)
VARIABLES
    option,      \* option[p]: the penalty object p, NoObject before construction
    list_index,  \* list_index[p]: the slot of p in its pool, -1 until reserved
    base,        \* base[p]: the evaluation path prepare tags p with
    g_internal,  \* g_internal[o]: the constraint pool of owner o ("nlp" or "ocp")
    J_internal,  \* J_internal[o]: the objective pool of owner o
    all_pn,      \* all_pn[p]: the nlp of p's first node list ("nlp", or None)
    pc,          \* pc[p]: the next step of p in a finalize pass
    overlapped,  \* history: a reservation ran while another penalty was reserved
    calls,       \* the number of clear_penalty calls made on a penalty
    options,     \* the penalty list: the ids of its entries, in order
    list_cls,    \* the class of the penalty list
    call,        \* the last call made on the constructor or the list
    raised,      \* the error the last call raised
    returned     \* the list the last prepare returned

vars == <<option, list_index, base, g_internal, J_internal, all_pn, pc, overlapped,
          calls, options, list_cls, call, raised, returned>>

Owners == {"nlp", "ocp"}

\* A slot is the empty list [] or holds (a reference to) a penalty object.
Empty == <<>>
Holds(p) == <<p>>

\* `not j` for a slot j: an empty list is falsy, a penalty object truthy.
Truthy(slot) == slot # Empty

\* `x.g_internal if nlp else ocp.g_internal`: the owner whose pool is used.
OwnerOf(nlp) == IF nlp # None THEN "nlp" ELSE "ocp"

\* No call made yet; no list returned.
NoCall == [op |-> None, prev |-> None]
NoList == [is_list |-> FALSE, list |-> <<>>]

(* ------------------------- the pool operations ------------------------- *)
\* Slot i (0-based) of a pool.
At(pool, i) == pool[i + 1]

\* Mutant: the scan claims the first occupied slot (`if j:`).
RECURSIVE FirstOccupiedSlot(_, _)
FirstOccupiedSlot(pool, i) ==
    IF i >= Len(pool) THEN -1
    ELSE IF Truthy(At(pool, i)) THEN i
    ELSE FirstOccupiedSlot(pool, i + 1)

\* `for i, j in enumerate(g_to_add_to): if not j: ...`, from index i on: the
\* first index whose slot is empty, -1 when the loop ends without one (else:).
RECURSIVE FirstEmptySlot(_, _)
FirstEmptySlot(pool, i) ==
    IF i >= Len(pool) THEN -1
    ELSE IF ~Truthy(At(pool, i)) THEN i
    ELSE FirstEmptySlot(pool, i + 1)

\* Mutant: the loop stops one slot short (`>` for `>=`).
RECURSIVE GrowTo_OneShort(_, _)
GrowTo_OneShort(pool, index) ==
    IF index > Len(pool) THEN GrowTo_OneShort(Append(pool, Empty), index) ELSE pool

\* `while self.list_index >= len(g_to_add_to): g_to_add_to.append([])`
RECURSIVE GrowTo(_, _)
GrowTo(pool, index) ==
    IF index >= Len(pool) THEN GrowTo(Append(pool, Empty), index) ELSE pool

\* Mutant: a reserved slot is removed from the pool instead of being emptied.
MultinodePenalty_clear_Remove(pool, index) ==
    IF index < 0
    THEN LET i == FirstEmptySlot(pool, 0)
         IN  IF i >= 0
             THEN [pool |-> pool, list_index |-> i]
             ELSE [pool |-> Append(pool, Empty), list_index |-> Len(pool) + 1 - 1]
    ELSE LET grown == GrowTo(pool, index)
         IN  [pool |-> SubSeq(grown, 1, index) \o SubSeq(grown, index + 2, Len(grown)),
              list_index |-> index]

\* Mutant: the slot of an assigned penalty is not emptied.
MultinodePenalty_clear_NoReset(pool, index) ==
    IF index < 0
    THEN LET i == FirstEmptySlot(pool, 0)
         IN  IF i >= 0
             THEN [pool |-> pool, list_index |-> i]
             ELSE [pool |-> Append(pool, Empty), list_index |-> Len(pool) + 1 - 1]
    ELSE [pool |-> GrowTo(pool, index), list_index |-> index]

\* Mutant: list_index 0 is taken for unassigned (`<= 0`), so the slot is
\* looked for again.
MultinodePenalty_clear_Rescan(pool, index) ==
    IF index <= 0
    THEN LET i == FirstEmptySlot(pool, 0)
         IN  IF i >= 0
             THEN [pool |-> pool, list_index |-> i]
             ELSE [pool |-> Append(pool, Empty), list_index |-> Len(pool) + 1 - 1]
    ELSE [pool |-> [GrowTo(pool, index) EXCEPT ![index + 1] = Empty],
          list_index |-> index]

\* The body of MultinodePenalty.clear_penalty on the chosen pool: the pool and
\* the list_index it leaves.
MultinodePenalty_clear(pool, index) ==
    IF index < 0
    THEN LET i == FirstEmptySlot(pool, 0)
         IN  IF i >= 0
             THEN [pool |-> pool, list_index |-> i]
             ELSE [pool |-> Append(pool, Empty), list_index |-> Len(pool) + 1 - 1]
    ELSE [pool |-> [GrowTo(pool, index) EXCEPT ![index + 1] = Empty],
          list_index |-> index]

\* The body of MultinodeObjective.clear_penalty on the objective pool.
MultinodeObjective_clear(pool, index) ==
    IF index < 0
    THEN LET i == FirstEmptySlot(pool, 0)
         IN  IF i >= 0
             THEN [pool |-> pool, list_index |-> i]
             ELSE [pool |-> Append(pool, Empty), list_index |-> Len(pool) + 1 - 1]
    ELSE [pool |-> [GrowTo(pool, index) EXCEPT ![index + 1] = Empty],
          list_index |-> index]

\* Mutant: the value is also written to every slot before the index.
SetItem_AndBefore(pool, index, value) ==
    IF index >= Len(pool) \/ index < -Len(pool) THEN pool
    ELSE [i \in 1..Len(pool) |->
             IF i <= (IF index < 0 THEN Len(pool) + index ELSE index) + 1 THEN value
             ELSE pool[i]]

\* `pool[index] = value` on a Python list: a negative index counts from the
\* end, an index outside -len..len-1 raises IndexError.
SetItemRaises(pool, index) == index >= Len(pool) \/ index < -Len(pool)
SetItem(pool, index, value) ==
    IF SetItemRaises(pool, index) THEN pool
    ELSE [pool EXCEPT ![(IF index < 0 THEN Len(pool) + index ELSE index) + 1] = value]

\* Mutant: the routing test is inverted.
UsesConstraintPool_Inverted(self) == self.weight # 0

\* `if self.weight == 0` of MultinodePenalty: TRUE for the constraint pool.
UsesConstraintPool(self) == self.weight = 0

\* MultinodePenalty.clear_penalty(ocp, nlp) with nlp = all_pn[0].nlp.
MultinodePenalty_clear_penalty(p) ==
    LET o == OwnerOf(all_pn[p])
        in_g == UsesConstraintPool(option[p])
        r == MultinodePenalty_clear(IF in_g THEN g_internal[o] ELSE J_internal[o],
                                    list_index[p])
    IN  /\ list_index' = [list_index EXCEPT ![p] = r.list_index]
        /\ g_internal' = IF in_g THEN [g_internal EXCEPT ![o] = r.pool] ELSE g_internal
        /\ J_internal' = IF in_g THEN J_internal ELSE [J_internal EXCEPT ![o] = r.pool]

\* MultinodePenalty._add_penalty_to_pool(all_pn)
MultinodePenalty_add_penalty_to_pool(p) ==
    LET o == OwnerOf(all_pn[p])
        in_g == UsesConstraintPool(option[p])
        pool == IF in_g THEN g_internal[o] ELSE J_internal[o]
        new == SetItem(pool, list_index[p], Holds(p))
    IN  /\ raised' = IF SetItemRaises(pool, list_index[p])
                      THEN [type |-> "IndexError", msg |-> <<>>] ELSE NoError
        /\ g_internal' = IF in_g THEN [g_internal EXCEPT ![o] = new] ELSE g_internal
        /\ J_internal' = IF in_g THEN J_internal ELSE [J_internal EXCEPT ![o] = new]
        /\ UNCHANGED list_index

\* Mutant: the objective chooses its pool by weight, as MultinodePenalty does.
MultinodeObjective_clear_penalty_ByWeight(p) == MultinodePenalty_clear_penalty(p)

\* MultinodeObjective.clear_penalty(ocp, nlp)
MultinodeObjective_clear_penalty(p) ==
    LET o == OwnerOf(all_pn[p])
        r == MultinodeObjective_clear(J_internal[o], list_index[p])
    IN  /\ list_index' = [list_index EXCEPT ![p] = r.list_index]
        /\ J_internal' = [J_internal EXCEPT ![o] = r.pool]
        /\ UNCHANGED g_internal

\* MultinodeObjective._add_penalty_to_pool(all_pn)
MultinodeObjective_add_penalty_to_pool(p) ==
    LET o == OwnerOf(all_pn[p])
        pool == J_internal[o]
    IN  /\ raised' = IF SetItemRaises(pool, list_index[p])
                      THEN [type |-> "IndexError", msg |-> <<>>] ELSE NoError
        /\ J_internal' = [J_internal EXCEPT ![o] = SetItem(pool, list_index[p], Holds(p))]
        /\ UNCHANGED <<g_internal, list_index>>

(* ----------------- finalize passes over a shared pool ------------------ *)
\* The objects the pool specifications start from: a MultinodePenalty of
\* either weight or a MultinodeObjective, between the end of phase 0 and the
\* start of phase 1.
Constructed(cls, weight) ==
    IF cls = "MultinodeObjective"
    THEN MultinodeObjective__init__(0, 1, NodeMarker("END"), NodeMarker("START"),
                                    ObjectiveFcn("EQUALITY"), NoFcn, weight, FALSE).self
    ELSE MultinodePenalty__init__(cls, 0, 1, NodeMarker("END"), NodeMarker("START"),
                                  PenaltyFcn("EQUALITY"), NoFcn, weight, FALSE).self

\* The constructed objects, and an objective whose weight attribute was
\* assigned after construction (construction leaves it 0).
PoolObjects ==
    {Constructed(cls, w) : cls \in {"MultinodePenalty", "MultinodeObjective"}, w \in Weights}
        \cup {[Constructed("MultinodeObjective", w) EXCEPT !.weight = w] : w \in Weights}

Init ==
    /\ option \in [Penalties -> PoolObjects]
    /\ list_index = [p \in Penalties |-> Unassigned]
    /\ base = [p \in Penalties |-> None]
    /\ g_internal = [o \in Owners |-> <<>>]
    /\ J_internal = [o \in Owners |-> <<>>]
    /\ all_pn \in [Penalties -> {"nlp", None}]
    /\ pc = [p \in Penalties |-> "clear"]
    /\ overlapped = FALSE
    /\ calls = 0
    /\ options = <<>>
    /\ list_cls = None
    /\ call = NoCall
    /\ raised = NoError
    /\ returned = NoList

\* The first step of a finalize pass of penalty p: it reserves its slot.
\* overlapped records that another penalty was between its two steps.
PenaltyClear(p) ==
    /\ pc[p] = "clear"
    /\ option[p].cls = "MultinodePenalty"
    /\ MultinodePenalty_clear_penalty(p)
    /\ pc' = [pc EXCEPT ![p] = "add"]
    /\ overlapped' = (overlapped \/ \E q \in Penalties \ {p} : pc[q] = "add")
    /\ UNCHANGED <<option, base, all_pn, calls, options, list_cls, call, raised, returned>>

ObjectiveClear(p) ==
    /\ pc[p] = "clear"
    /\ option[p].cls = "MultinodeObjective"
    /\ MultinodeObjective_clear_penalty(p)
    /\ pc' = [pc EXCEPT ![p] = "add"]
    /\ overlapped' = (overlapped \/ \E q \in Penalties \ {p} : pc[q] = "add")
    /\ UNCHANGED <<option, base, all_pn, calls, options, list_cls, call, raised, returned>>

\* The second step: the penalty is installed in the slot it reserved.
PenaltyAdd(p) ==
    /\ pc[p] = "add"
    /\ option[p].cls = "MultinodePenalty"
    /\ MultinodePenalty_add_penalty_to_pool(p)
    /\ pc' = [pc EXCEPT ![p] = "clear"]
    /\ UNCHANGED <<option, base, all_pn, overlapped, calls, options, list_cls, call, returned>>

ObjectiveAdd(p) ==
    /\ pc[p] = "add"
    /\ option[p].cls = "MultinodeObjective"
    /\ MultinodeObjective_add_penalty_to_pool(p)
    /\ pc' = [pc EXCEPT ![p] = "clear"]
    /\ UNCHANGED <<option, base, all_pn, overlapped, calls, options, list_cls, call, returned>>

Next ==
    \E p \in Penalties :
        \/ PenaltyClear(p)
        \/ PenaltyAdd(p)
        \/ ObjectiveClear(p)
        \/ ObjectiveAdd(p)

Spec == Init /\ [][Next]_vars

(* ------------- calls on one penalty, from any pool content ------------- *)
\* The contents a pool can have: up to MaxPool slots, each empty or holding
\* a penalty (this one or another).
Slots == {Empty} \cup {Holds(q) : q \in Penalties}
PoolValues == UNION {[1..n -> Slots] : n \in 0..MaxPool}

\* Penalty 1 is the penalty the calls are made on.
Self == 1

\* Penalty 1 with any list_index, unassigned or assigned (also beyond the end
\* of the pool, as when the pools are those of a new problem), and any
\* content in the pool it is routed to.
InitCalls ==
    /\ \E obj \in PoolObjects :
          option = [p \in Penalties |-> IF p = Self THEN obj ELSE NoObject]
    /\ list_index \in {[p \in Penalties |-> IF p = Self THEN i ELSE Unassigned] : i \in -1..(MaxPool + 1)}
    /\ all_pn \in {[p \in Penalties |-> IF p = Self THEN n ELSE None] : n \in {"nlp", None}}
    /\ \E content \in PoolValues :
          LET in_g == option[Self].cls = "MultinodePenalty" /\ UsesConstraintPool(option[Self])
              o == OwnerOf(all_pn[Self])
          IN  /\ g_internal = [x \in Owners |-> IF in_g /\ x = o THEN content ELSE <<>>]
              /\ J_internal = [x \in Owners |-> IF ~in_g /\ x = o THEN content ELSE <<>>]
    /\ base = [p \in Penalties |-> None]
    /\ pc = [p \in Penalties |-> "clear"]
    /\ overlapped = FALSE
    /\ calls = 0
    /\ options = <<>>
    /\ list_cls = None
    /\ call = NoCall
    /\ raised = NoError
    /\ returned = NoList

\* The pool the calls on penalty 1 are routed to.
TargetPool ==
    IF option[Self].cls = "MultinodePenalty" /\ UsesConstraintPool(option[Self])
    THEN g_internal[OwnerOf(all_pn[Self])]
    ELSE J_internal[OwnerOf(all_pn[Self])]

\* A call records the operation, the one before it, and the list_index and
\* the pool length it found.
CallPenaltyClear ==
    /\ calls < MaxCalls
    /\ option[Self].cls = "MultinodePenalty"
    /\ MultinodePenalty_clear_penalty(Self)
    /\ calls' = calls + 1
    /\ call' = [op |-> "clear_penalty", prev |-> call.op,
                index |-> list_index[Self], len |-> Len(TargetPool)]
    /\ raised' = NoError
    /\ UNCHANGED <<option, base, all_pn, pc, overlapped, options, list_cls, returned>>

CallObjectiveClear ==
    /\ calls < MaxCalls
    /\ option[Self].cls = "MultinodeObjective"
    /\ MultinodeObjective_clear_penalty(Self)
    /\ calls' = calls + 1
    /\ call' = [op |-> "clear_penalty", prev |-> call.op,
                index |-> list_index[Self], len |-> Len(TargetPool)]
    /\ raised' = NoError
    /\ UNCHANGED <<option, base, all_pn, pc, overlapped, options, list_cls, returned>>

CallPenaltyAdd ==
    /\ calls < MaxCalls
    /\ option[Self].cls = "MultinodePenalty"
    /\ MultinodePenalty_add_penalty_to_pool(Self)
    /\ calls' = calls + 1
    /\ call' = [op |-> "_add_penalty_to_pool", prev |-> call.op,
                index |-> list_index[Self], len |-> Len(TargetPool)]
    /\ UNCHANGED <<option, base, all_pn, pc, overlapped, options, list_cls, returned>>

CallObjectiveAdd ==
    /\ calls < MaxCalls
    /\ option[Self].cls = "MultinodeObjective"
    /\ MultinodeObjective_add_penalty_to_pool(Self)
    /\ calls' = calls + 1
    /\ call' = [op |-> "_add_penalty_to_pool", prev |-> call.op,
                index |-> list_index[Self], len |-> Len(TargetPool)]
    /\ UNCHANGED <<option, base, all_pn, pc, overlapped, options, list_cls, returned>>

NextCalls ==
    \/ CallPenaltyClear
    \/ CallObjectiveClear
    \/ CallPenaltyAdd
    \/ CallObjectiveAdd

SpecCalls == InitCalls /\ [][NextCalls]_vars

(* ---------------------------- construction ----------------------------- *)
\* One constructor call, with any node arguments.
InitConstruct ==
    /\ option = [p \in Penalties |-> NoObject]
    /\ list_index = [p \in Penalties |-> Unassigned]
    /\ base = [p \in Penalties |-> None]
    /\ g_internal = [o \in Owners |-> <<>>]
    /\ J_internal = [o \in Owners |-> <<>>]
    /\ all_pn = [p \in Penalties |-> None]
    /\ pc = [p \in Penalties |-> "clear"]
    /\ overlapped = FALSE
    /\ calls = 0
    /\ options = <<>>
    /\ list_cls = None
    /\ call = NoCall
    /\ raised = NoError
    /\ returned = NoList

\* MultinodePenalty(phase_first_idx=0, phase_second_idx=1, first_node, second_node,
\* MultinodePenaltyFcn.EQUALITY, weight=weight)
ConstructMultinodePenalty(first_node, second_node, weight) ==
    LET r == MultinodePenalty__init__("MultinodePenalty", 0, 1, first_node, second_node,
                                      PenaltyFcn("EQUALITY"), NoFcn, weight, FALSE)
    IN  /\ call.op = None
        /\ call' = [op |-> "MultinodePenalty", prev |-> call.op,
                    first_node |-> first_node, second_node |-> second_node,
                    weight |-> weight]
        /\ raised' = r.raised
        /\ option' = [option EXCEPT ![Self] = r.self]
        /\ UNCHANGED <<list_index, base, g_internal, J_internal, all_pn, pc, overlapped,
                       calls, options, list_cls, returned>>

\* MultinodeObjective(phase_first_idx=0, phase_second_idx=1, first_node, second_node,
\* MultinodeObjectiveFcn.EQUALITY, weight=weight)
ConstructMultinodeObjective(first_node, second_node, weight) ==
    LET r == MultinodeObjective__init__(0, 1, first_node, second_node,
                                        ObjectiveFcn("EQUALITY"), NoFcn, weight, FALSE)
    IN  /\ call.op = None
        /\ call' = [op |-> "MultinodeObjective", prev |-> call.op,
                    first_node |-> first_node, second_node |-> second_node,
                    weight |-> weight]
        /\ raised' = r.raised
        /\ option' = [option EXCEPT ![Self] = r.self]
        /\ UNCHANGED <<list_index, base, g_internal, J_internal, all_pn, pc, overlapped,
                       calls, options, list_cls, returned>>

NextConstruct ==
    \E first_node, second_node \in NodeValues, weight \in Weights :
        \/ ConstructMultinodePenalty(first_node, second_node, weight)
        \/ ConstructMultinodeObjective(first_node, second_node, weight)

SpecConstruct == InitConstruct /\ [][NextConstruct]_vars

(* --------------------------- the penalty list -------------------------- *)
\* The phase indices given to add: negative, the lowest phase, the highest
\* phase of the largest problem, and one past it.
PhaseIdx == {-1, 0, MaxPhases - 1, MaxPhases}

MsgHigher ==
    <<"Phase", "index", "of", "the", "multinode_penalty", "is", "higher", "than", "the",
      "number", "of", "phases">>
MsgPositive ==
    <<"Phase", "index", "of", "the", "multinode_penalty", "need", "to", "be", "positive">>

\* Mutant: an index equal to n_phases passes (`>` for `>=`).
PhaseIndexError_OffByOne(mnc, n_phases) ==
    IF mnc.phase_first_idx > n_phases \/ mnc.phase_second_idx > n_phases
    THEN [type |-> "RuntimeError", msg |-> MsgHigher]
    ELSE IF mnc.phase_first_idx < 0 \/ mnc.phase_second_idx < 0
    THEN [type |-> "RuntimeError", msg |-> MsgPositive]
    ELSE NoError

\* Mutant: the two checks are made in the other order.
PhaseIndexError_NegativeFirst(mnc, n_phases) ==
    IF mnc.phase_first_idx < 0 \/ mnc.phase_second_idx < 0
    THEN [type |-> "RuntimeError", msg |-> MsgPositive]
    ELSE IF mnc.phase_first_idx >= n_phases \/ mnc.phase_second_idx >= n_phases
    THEN [type |-> "RuntimeError", msg |-> MsgHigher]
    ELSE NoError

\* The two checks prepare_multinode_penalties makes on an entry: the error
\* it raises, NoError when the entry passes.
PhaseIndexError(mnc, n_phases) ==
    IF mnc.phase_first_idx >= n_phases \/ mnc.phase_second_idx >= n_phases
    THEN [type |-> "RuntimeError", msg |-> MsgHigher]
    ELSE IF mnc.phase_first_idx < 0 \/ mnc.phase_second_idx < 0
    THEN [type |-> "RuntimeError", msg |-> MsgPositive]
    ELSE NoError

\* prepare_multinode_penalties from entry i (1-based) on, with the tags b set
\* and the list full built so far: the error raised, the tags and the list
\* returned. A raise leaves the tags already set.
RECURSIVE PrepareFrom(_, _, _, _)
PrepareFrom(i, n_phases, b, full) ==
    IF i > Len(options)
    THEN [raised |-> NoError, base |-> b, returned |-> [is_list |-> TRUE, list |-> full]]
    ELSE LET id == options[i]
             mnc == option[id]
             err == PhaseIndexError(mnc, n_phases)
         IN  IF err # NoError
             THEN [raised |-> err, base |-> b, returned |-> NoList]
             ELSE PrepareFrom(i + 1, n_phases,
                              IF mnc.weight # 0 THEN [b EXCEPT ![id] = "MayerFunction"] ELSE b,
                              Append(full, id))

\* The weights given to the add calls made so far, in order (a history kept
\* in call by add and by prepare_multinode_penalties).
Given == IF call.op \in {"add", "prepare_multinode_penalties"} THEN call.given ELSE <<>>

\* _add of the option list: a new entry of the option type is appended.
OptionList_add(list, id) == Append(list, id)

InitList ==
    /\ option = [p \in Penalties |-> NoObject]
    /\ list_index = [p \in Penalties |-> Unassigned]
    /\ base = [p \in Penalties |-> None]
    /\ g_internal = [o \in Owners |-> <<>>]
    /\ J_internal = [o \in Owners |-> <<>>]
    /\ all_pn = [p \in Penalties |-> None]
    /\ pc = [p \in Penalties |-> "clear"]
    /\ overlapped = FALSE
    /\ calls = 0
    /\ options = <<>>
    /\ list_cls \in {"MultinodePenaltyList", "MultinodeObjectiveList"}
    /\ call = NoCall
    /\ raised = NoError
    /\ returned = NoList

\* MultinodePenaltyList.add(multinode_penalty, phase_first_idx=..., phase_second_idx=...,
\* first_node=Node.END, second_node=Node.START, weight=...)
MultinodePenaltyList_add(multinode_penalty, phase_first_idx, phase_second_idx, weight) ==
    LET id == Len(options) + 1
        is_fcn == IsMultinodePenaltyFcn(multinode_penalty)
        r == MultinodePenalty__init__("MultinodePenalty", phase_first_idx, phase_second_idx,
                                      NodeMarker("END"), NodeMarker("START"),
                                      IF is_fcn THEN multinode_penalty ELSE PenaltyFcn("CUSTOM"),
                                      IF is_fcn THEN NoFcn ELSE multinode_penalty,
                                      weight, FALSE)
    IN  /\ list_cls = "MultinodePenaltyList"
        /\ Len(options) < NumPenalties
        /\ option' = [option EXCEPT ![id] = r.self]
        /\ options' = OptionList_add(options, id)
        /\ call' = [op |-> "add", prev |-> call.op,
                    multinode_penalty |-> multinode_penalty, weight |-> weight,
                    given |-> Append(Given, weight)]
        /\ raised' = r.raised
        /\ returned' = NoList
        /\ UNCHANGED <<list_index, base, g_internal, J_internal, all_pn, pc, overlapped,
                       calls, list_cls>>

\* MultinodeObjectiveList.add(multinode_objective, phase_first_idx=..., ...)
MultinodeObjectiveList_add(multinode_objective, phase_first_idx, phase_second_idx, weight) ==
    LET id == Len(options) + 1
        is_fcn == IsMultinodeObjectiveFcn(multinode_objective)
        r == MultinodeObjective__init__(phase_first_idx, phase_second_idx,
                                        NodeMarker("END"), NodeMarker("START"),
                                        IF is_fcn THEN multinode_objective
                                                  ELSE ObjectiveFcn("CUSTOM"),
                                        IF is_fcn THEN NoFcn ELSE multinode_objective,
                                        weight, FALSE)
    IN  /\ list_cls = "MultinodeObjectiveList"
        /\ Len(options) < NumPenalties
        /\ option' = [option EXCEPT ![id] = r.self]
        /\ options' = OptionList_add(options, id)
        /\ call' = [op |-> "add", prev |-> call.op,
                    multinode_objective |-> multinode_objective, weight |-> weight,
                    given |-> Append(Given, weight)]
        /\ raised' = r.raised
        /\ returned' = NoList
        /\ UNCHANGED <<list_index, base, g_internal, J_internal, all_pn, pc, overlapped,
                       calls, list_cls>>

\* MultinodePenaltyList.prepare_multinode_penalties(ocp) with ocp.n_phases = n_phases
prepare_multinode_penalties(n_phases) ==
    LET r == PrepareFrom(1, n_phases, base, <<>>)
    IN  /\ call' = [op |-> "prepare_multinode_penalties", prev |-> call.op,
                    n_phases |-> n_phases, given |-> Given]
        /\ raised' = r.raised
        /\ base' = r.base
        /\ returned' = r.returned
        /\ UNCHANGED <<option, list_index, g_internal, J_internal, all_pn, pc, overlapped,
                       calls, options, list_cls>>

\* add is given EQUALITY with any phase indices, and every other strategy
\* value between the first and the last phase.
NextList ==
    \/ \E phase_first_idx, phase_second_idx \in PhaseIdx, weight \in Weights :
          \/ \E multinode_penalty \in StrategyValues :
                /\ \/ multinode_penalty = PenaltyFcn("EQUALITY")
                   \/ phase_first_idx = 0 /\ phase_second_idx = MaxPhases - 1
                /\ MultinodePenaltyList_add(multinode_penalty, phase_first_idx,
                                            phase_second_idx, weight)
          \/ \E multinode_objective \in ObjectiveStrategyValues :
                /\ \/ multinode_objective = ObjectiveFcn("EQUALITY")
                   \/ phase_first_idx = 0 /\ phase_second_idx = MaxPhases - 1
                /\ MultinodeObjectiveList_add(multinode_objective, phase_first_idx,
                                              phase_second_idx, weight)
    \/ \E n_phases \in 1..MaxPhases : prepare_multinode_penalties(n_phases)

SpecList == InitList /\ [][NextList]_vars

(* ------------------------ the strategy functions ----------------------- *)
\* The largest number of degrees of freedom of a phase: its state vector is
\* the position block q followed by the velocity block qdot.
MaxDof == 1

\* A casadi column is the sequence of its rows; its shape is (rows, 1).
shape(x) == <<Len(x), 1>>

\* The 0-based indices a..b-1.
Range(a, b) == [i \in 1..(b - a) |-> a + i - 1]

\* The states of a phase with start-of-interval expression x, whose
\* end-of-interval expression is x advanced by the step d: cx, cx_end, and
\* the rows of the blocks q and qdot.
OptimizationVariableList(x, d) ==
    [cx |-> x,
     cx_end |-> [i \in 1..Len(x) |-> x[i] + d],
     keys |-> <<"q", "qdot">>,
     q |-> [index |-> Range(0, Len(x) \div 2)],
     qdot |-> [index |-> Range(Len(x) \div 2, Len(x))]]

\* The node contexts: a phase, its physical model and its states.
NonLinearProgram(name, x, d) ==
    [name |-> name, model |-> name, states |-> OptimizationVariableList(x, d)]

StateValues == {0, 1}
StateSteps == {0, 1}

NlpValues(name) ==
    {NonLinearProgram(name, x, d) :
        x \in UNION {[1..(2 * nq) -> StateValues] : nq \in 1..MaxDof}, d \in StateSteps}

\* Mapping.map(obj): row i of the result is row map_idx[i] of obj.
Mapping_map(map_idx, obj) == [i \in 1..Len(map_idx) |-> obj[map_idx[i] + 1]]

\* The mappings of a vector of n rows: the identity, the first k rows, and
\* the rows in reverse order.
MapIdxValues(n) ==
    {Range(0, k) : k \in 1..n} \cup {[i \in 1..n |-> n - i]}

\* The states_mapping attribute: to_second maps the states of the pre phase,
\* to_first those of the post phase.
BiMappingValues(nlp_pre, nlp_post) ==
    {[to_second |-> s, to_first |-> f] :
        s \in MapIdxValues(Len(nlp_pre.states.cx)), f \in MapIdxValues(Len(nlp_post.states.cx))}

\* The penalty as the strategy functions read it: with its states_mapping.
WithStatesMapping(self, states_mapping) ==
    [k \in DOMAIN self \cup {"states_mapping"} |->
        IF k = "states_mapping" THEN states_mapping ELSE self[k]]

MsgContinuity ==
    <<"Continuity", "can't", "be", "established", "since", "the", "number", "of", "x",
      "to", "be", "matched", "is", "{states_pre.shape}", "in", "the", "pre-transition",
      "phase", "and", "{states_post.shape}", "post-transition", "phase.", "Please",
      "use", "a", "custom", "transition", "or", "supply", "states_mapping">>

\* The RuntimeError of the shape check, with the two shapes it formats.
ContinuityError(states_pre, states_post) ==
    [type |-> "RuntimeError", msg |-> MsgContinuity,
     args |-> <<shape(states_pre), shape(states_post)>>]

\* The outcome of a strategy function: the error raised or the value
\* returned, and the calls made to user functions.
Raises(err) == [raised |-> err, value |-> <<>>, invoked |-> <<>>]
Returns(value) == [raised |-> NoError, value |-> value, invoked |-> <<>>]

\* Mutant: post minus pre.
Minus_Swapped(a, b) == [i \in 1..Len(a) |-> b[i] - a[i]]

\* a - b of two columns of one shape.
Minus(a, b) == [i \in 1..Len(a) |-> a[i] - b[i]]

\* MultinodePenaltyFunctions.Functions.equality(multinode_penalty, all_pn)
equality(multinode_penalty, nodes) ==
    LET nlp_pre == nodes[1].nlp
        nlp_post == nodes[2].nlp
        states_pre == Mapping_map(multinode_penalty.states_mapping.to_second,
                                  nlp_pre.states.cx_end)
        states_post == Mapping_map(multinode_penalty.states_mapping.to_first,
                                   nlp_post.states.cx)
    IN  IF shape(states_pre) # shape(states_post)
        THEN Raises(ContinuityError(states_pre, states_post))
        ELSE Returns(Minus(states_pre, states_post))

\* An error raised inside casadi: a row outside a column, or a function
\* called with an argument that has not the shape of its parameter.
CasadiError == [type |-> "RuntimeError", msg |-> <<"casadi">>]

\* x[index, :] of a column x: the rows at the 0-based indices.
RowsRaise(x, index) == \E i \in 1..Len(index) : index[i] >= Len(x)
Rows(x, index) == [i \in 1..Len(index) |-> x[index[i] + 1]]

\* The capabilities of the physical model, left uninterpreted: the term of
\* the call, and the difference of two terms.
CoM(model, q) == [fn |-> "CoM", model |-> model, args |-> <<q>>]
CoMdot(model, q, qdot) == [fn |-> "CoMdot", model |-> model, args |-> <<q, qdot>>]
TermMinus(a, b) == [fn |-> "minus", args |-> <<a, b>>]

\* MultinodePenaltyFunctions.Functions.com_equality(multinode_penalty, all_pn):
\* the function of (states_pre, states_post_sym) that to_casadi_func builds is
\* func, called at (pre_states_cx, post_states_cx).
com_equality(multinode_penalty, nodes) ==
    LET nlp_pre == nodes[1].nlp
        nlp_post == nodes[2].nlp
        states_pre == Mapping_map(multinode_penalty.states_mapping.to_second,
                                  nlp_pre.states.cx_end)
        states_post == Mapping_map(multinode_penalty.states_mapping.to_first,
                                   nlp_post.states.cx)
        func(pre, post_sym) ==
            TermMinus(CoM(nlp_pre.model, Rows(pre, nlp_pre.states.q.index)),
                      CoM(nlp_post.model, Rows(post_sym, nlp_post.states.q.index)))
        pre_states_cx == nlp_pre.states.cx
        post_states_cx == nlp_post.states.cx
    IN  IF shape(states_pre) # shape(states_post)
        THEN Raises(ContinuityError(states_pre, states_post))
        ELSE IF RowsRaise(states_pre, nlp_pre.states.q.index)
        THEN Raises(CasadiError)
        ELSE IF shape(pre_states_cx) # shape(states_pre)
        THEN Raises(CasadiError)
        ELSE Returns(func(pre_states_cx, post_states_cx))

\* MultinodePenaltyFunctions.Functions.com_velocity_equality(multinode_penalty, all_pn)
com_velocity_equality(multinode_penalty, nodes) ==
    LET nlp_pre == nodes[1].nlp
        nlp_post == nodes[2].nlp
        states_pre == Mapping_map(multinode_penalty.states_mapping.to_second,
                                  nlp_pre.states.cx_end)
        states_post == Mapping_map(multinode_penalty.states_mapping.to_first,
                                   nlp_post.states.cx)
        func(pre, post_sym) ==
            TermMinus(CoMdot(nlp_pre.model, Rows(pre, nlp_pre.states.q.index),
                             Rows(pre, nlp_pre.states.qdot.index)),
                      CoMdot(nlp_post.model, Rows(post_sym, nlp_post.states.q.index),
                             Rows(post_sym, nlp_post.states.qdot.index)))
        pre_states_cx == nlp_pre.states.cx_end
        post_states_cx == nlp_post.states.cx
    IN  IF shape(states_pre) # shape(states_post)
        THEN Raises(ContinuityError(states_pre, states_post))
        ELSE IF RowsRaise(states_pre, nlp_pre.states.q.index)
                \/ RowsRaise(states_pre, nlp_pre.states.qdot.index)
        THEN Raises(CasadiError)
        ELSE IF shape(pre_states_cx) # shape(states_pre)
        THEN Raises(CasadiError)
        ELSE Returns(func(pre_states_cx, post_states_cx))

\* The keyword parameters a custom function is given: <<key, value>> pairs.
ExtraParams == {<<>>, << <<"coef", "2">> >>}

\* The value a user function returns on its arguments, left uninterpreted.
ResultOf(fn, args, kwargs) == [result_of |-> fn, args |-> args, kwargs |-> kwargs]

\* Mutant: the extra keyword parameters are not passed on.
custom_NoExtra(multinode_penalty, nodes, extra_params) ==
    LET nlp_pre == nodes[1].nlp
        nlp_post == nodes[2].nlp
        fn == multinode_penalty.custom_function
        args == <<multinode_penalty, nlp_pre, nlp_post>>
    IN  IF fn.enum # "function"
        THEN Raises([type |-> "TypeError", msg |-> <<"object", "is", "not", "callable">>])
        ELSE [raised |-> NoError,
              value |-> ResultOf(fn, args, <<>>),
              invoked |-> <<[fn |-> fn, args |-> args, kwargs |-> <<>>]>>]

\* MultinodePenaltyFunctions.Functions.custom(multinode_penalty, all_pn, **extra_params):
\* calling a custom_function that is no function (None) is a TypeError.
custom(multinode_penalty, nodes, extra_params) ==
    LET nlp_pre == nodes[1].nlp
        nlp_post == nodes[2].nlp
        fn == multinode_penalty.custom_function
        args == <<multinode_penalty, nlp_pre, nlp_post>>
    IN  IF fn.enum # "function"
        THEN Raises([type |-> "TypeError", msg |-> <<"object", "is", "not", "callable">>])
        ELSE [raised |-> NoError,
              value |-> ResultOf(fn, args, extra_params),
              invoked |-> <<[fn |-> fn, args |-> args, kwargs |-> extra_params]>>]

\* No residual computed.
NoResidual == [is_residual |-> FALSE]

InitRealize ==
    /\ option = [p \in Penalties |-> NoObject]
    /\ list_index = [p \in Penalties |-> Unassigned]
    /\ base = [p \in Penalties |-> None]
    /\ g_internal = [o \in Owners |-> <<>>]
    /\ J_internal = [o \in Owners |-> <<>>]
    /\ all_pn = [p \in Penalties |-> None]
    /\ pc = [p \in Penalties |-> "clear"]
    /\ overlapped = FALSE
    /\ calls = 0
    /\ options = <<>>
    /\ list_cls = "MultinodePenaltyList"
    /\ call = NoCall
    /\ raised = NoError
    /\ returned = NoList

\* The entry of a list of one: add(multinode_penalty, phase_first_idx=0,
\* phase_second_idx=1, first_node=Node.END, second_node=Node.START, weight=...)
AddEntry(multinode_penalty, weight) ==
    /\ options = <<>>
    /\ MultinodePenaltyList_add(multinode_penalty, 0, 1, weight)

\* The entry p is realized (once, after add: NextRealize): the function its
\* strategy tag holds is called with the penalty and the two node contexts,
\* CUSTOM also with the extra keyword parameters.
Realize(p, states_mapping, nlp_pre, nlp_post, extra_params) ==
    LET multinode_penalty == WithStatesMapping(option[p], states_mapping)
        nodes == <<[nlp |-> nlp_pre], [nlp |-> nlp_post]>>
        name == option[p].type.name
        r == CASE name = "EQUALITY" -> equality(multinode_penalty, nodes)
               [] name = "COM_EQUALITY" -> com_equality(multinode_penalty, nodes)
               [] name = "COM_VELOCITY_EQUALITY" ->
                      com_velocity_equality(multinode_penalty, nodes)
               [] name = "CUSTOM" -> custom(multinode_penalty, nodes, extra_params)
    IN  /\ p \in 1..Len(options)
        /\ option[p] # NoObject
        /\ name = "CUSTOM" \/ extra_params = <<>>
        /\ call' = [op |-> "realize", p |-> p, states_mapping |-> states_mapping,
                    nlp_pre |-> nlp_pre, nlp_post |-> nlp_post,
                    extra_params |-> extra_params, invoked |-> r.invoked]
        /\ raised' = r.raised
        /\ returned' = IF r.raised = NoError
                       THEN [is_residual |-> TRUE, residual |-> r.value]
                       ELSE NoResidual
        /\ UNCHANGED <<option, list_index, base, g_internal, J_internal, all_pn, pc,
                       overlapped, calls, options, list_cls>>

NextRealize ==
    \/ \E multinode_penalty \in StrategyValues, weight \in Weights :
          AddEntry(multinode_penalty, weight)
    \/ /\ call.op = "add"
       /\ \E p \in 1..Len(options), nlp_pre \in NlpValues("pre"), nlp_post \in NlpValues("post") :
             \E states_mapping \in BiMappingValues(nlp_pre, nlp_post), extra_params \in ExtraParams :
                 Realize(p, states_mapping, nlp_pre, nlp_post, extra_params)

SpecRealize == InitRealize /\ [][NextRealize]_vars

(* ---------------------- properties of the pools ------------------------ *)
\* The pool penalty p reserves its slot in: <<"g" or "J", owner>>.
PoolOf(p) ==
    <<IF option[p].cls = "MultinodePenalty" /\ option[p].weight = 0 THEN "g" ELSE "J",
      OwnerOf(all_pn[p])>>

PoolContent(id) == IF id[1] = "g" THEN g_internal[id[2]] ELSE J_internal[id[2]]

\* Two distinct penalties of one pool hold the same slot.
Collide(p, q) ==
    /\ p # q
    /\ PoolOf(p) = PoolOf(q)
    /\ list_index[p] >= 0
    /\ list_index[p] = list_index[q]

\* C1 as stated: under any interleaving of the penalties' steps, no two
\* distinct penalties of one pool ever hold the same list_index.
C1_NoSlotCollision == \A p, q \in Penalties : ~Collide(p, q)

\* C1 amended: as long as no penalty has reserved its slot while another
\* penalty was between its clear_penalty and its _add_penalty_to_pool (the
\* steps run penalty by penalty), no two distinct penalties of one pool hold
\* the same list_index, over any number of finalize passes.
C1_NoSlotCollisionInListOrder ==
    ~overlapped => \A p, q \in Penalties : ~Collide(p, q)

\* Two penalties of one pool with no overlap so far: q is installed in a
\* later slot than p's, and p has reserved its slot again (its second pass).
C1_Witness ==
    /\ ~overlapped
    /\ \E p, q \in Penalties :
          /\ PoolOf(p) = PoolOf(q)
          /\ list_index[p] >= 0 /\ list_index[q] > list_index[p]
          /\ pc[p] = "add"
          /\ PoolContent(PoolOf(q))[list_index[q] + 1] = Holds(q)

(* C2 .. C4, C8 .. C10 *)
\* The slot of penalty p at index idx in pools g, J; Missing when idx is not
\* an index of the pool.
Missing == <<0>>
SlotIn(g, J, p, idx) ==
    LET pool == IF PoolOf(p)[1] = "g" THEN g[PoolOf(p)[2]] ELSE J[PoolOf(p)[2]]
    IN  IF idx >= 0 /\ idx < Len(pool) THEN pool[idx + 1] ELSE Missing

\* C2: clear_penalty called twice in a row on one penalty, from any pool
\* content and any list_index: the second call leaves the list_index and the
\* pools as the first left them, and the slot at list_index is empty after
\* the first call and after the second.
C2_ClearTwiceIdempotent ==
    [][(call'.op = "clear_penalty" /\ call'.prev = "clear_penalty" /\ calls' = calls + 1)
         => /\ list_index'[Self] = list_index[Self]
            /\ g_internal' = g_internal
            /\ J_internal' = J_internal
            /\ SlotIn(g_internal, J_internal, Self, list_index[Self]) = Empty
            /\ SlotIn(g_internal', J_internal', Self, list_index'[Self]) = Empty]_vars

\* clear_penalty has been called twice in a row, first on an unassigned
\* penalty whose pool had no empty slot.
C2_Witness ==
    /\ calls = 2
    /\ call.op = "clear_penalty" /\ call.prev = "clear_penalty"
    /\ call.index = call.len - 1
    /\ call.len >= 2
    /\ \A i \in 0..(call.len - 2) : Truthy(At(TargetPool, i))

\* C3: clear_penalty on a penalty with list_index = k >= 0 and a pool of
\* length n < k + 1 leaves the pool with exactly k + 1 slots, the appended
\* slots n..k empty, and list_index = k.
C3_PoolGrowth ==
    (call.op = "clear_penalty" /\ call.index >= 0 /\ call.len < call.index + 1)
        => /\ Len(TargetPool) = call.index + 1
           /\ \A i \in call.len..call.index : At(TargetPool, i) = Empty
           /\ list_index[Self] = call.index

\* A first clear_penalty call that had to append at least two slots to a pool
\* that was not empty.
C3_Witness ==
    /\ calls = 1
    /\ call.op = "clear_penalty"
    /\ call.len >= 1
    /\ call.index >= call.len + 1
    /\ Len(TargetPool) = call.index + 1

\* C4: no step of any penalty shortens the constraint pool or the objective
\* pool of either owner.
C4_PoolsNeverShrink ==
    [][\A o \in Owners :
          /\ Len(g_internal'[o]) >= Len(g_internal[o])
          /\ Len(J_internal'[o]) >= Len(J_internal[o])]_vars

\* A pool that grew to two slots, both emptied again by a later pass.
C4_Witness ==
    \E o \in Owners :
        \/ Len(g_internal[o]) = 2 /\ \A i \in 0..1 : At(g_internal[o], i) = Empty
        \/ Len(J_internal[o]) = 2 /\ \A i \in 0..1 : At(J_internal[o], i) = Empty

\* Penalty p takes its clear_penalty step / its _add_penalty_to_pool step.
Clears(p) == pc[p] = "clear" /\ pc'[p] = "add"
Adds(p) == pc[p] = "add" /\ pc'[p] = "clear"

\* C8: a MultinodePenalty is quadratic after construction; with weight = 0
\* its clear_penalty and _add_penalty_to_pool act on the constraint pool of
\* its owner and leave the objective pools alone, with weight # 0 they act on
\* the objective pool and leave the constraint pools alone; the slot reserved
\* and the slot written are the slot list_index of that one pool.
C8_WeightRouting ==
    /\ [](\A p \in Penalties : option[p].cls = "MultinodePenalty" => option[p].quadratic)
    /\ [][\A p \in Penalties :
            option[p].cls = "MultinodePenalty" =>
              LET o == OwnerOf(all_pn[p])
                  mine == IF option[p].weight = 0 THEN g_internal'[o] ELSE J_internal'[o]
                  i == list_index'[p]
              IN  /\ (Clears(p) \/ Adds(p)) =>
                        /\ (option[p].weight = 0 => J_internal' = J_internal)
                        /\ (option[p].weight # 0 => g_internal' = g_internal)
                        /\ i >= 0 /\ i < Len(mine)
                  /\ Clears(p) => mine[i + 1] = Empty
                  /\ Adds(p) => mine[i + 1] = Holds(p) /\ i = list_index[p]]_vars

\* A weight-0 penalty is installed in a constraint pool and a weighted one in
\* an objective pool.
C8_Witness ==
    \E p, q \in Penalties :
        /\ option[p].cls = "MultinodePenalty" /\ option[p].weight = 0
        /\ option[q].cls = "MultinodePenalty" /\ option[q].weight # 0
        /\ list_index[p] >= 0 /\ list_index[q] >= 0
        /\ SlotIn(g_internal, J_internal, p, list_index[p]) = Holds(p)
        /\ SlotIn(g_internal, J_internal, q, list_index[q]) = Holds(q)
        /\ pc[p] = "clear" /\ pc[q] = "clear"

\* C9: the steps of a MultinodeObjective, of weight 0 or not, leave every
\* constraint pool unchanged; the slot it reserves and the slot it writes are
\* the slot list_index of the objective pool of its owner.
C9_ObjectiveOnlyObjectivePool ==
    [][\A p \in Penalties :
          (option[p].cls = "MultinodeObjective" /\ (Clears(p) \/ Adds(p))) =>
              LET pool == J_internal'[OwnerOf(all_pn[p])]
                  i == list_index'[p]
              IN  /\ g_internal' = g_internal
                  /\ i >= 0 /\ i < Len(pool)
                  /\ pool[i + 1] = IF Clears(p) THEN Empty ELSE Holds(p)]_vars

\* An objective (its weight is 0) is installed in the objective pool of an
\* owner whose constraint pool holds a penalty of weight 0.
C9_Witness ==
    \E p, q \in Penalties :
        /\ option[p].cls = "MultinodeObjective" /\ option[p].weight = 0
        /\ option[q].cls = "MultinodePenalty"
        /\ list_index[p] >= 0 /\ list_index[q] >= 0
        /\ all_pn[p] = all_pn[q]
        /\ J_internal[OwnerOf(all_pn[p])] = <<Holds(p)>>
        /\ g_internal[OwnerOf(all_pn[p])] = <<Holds(q)>>

\* The state of penalty p read from the data.
LifeState(idx, slot) ==
    IF idx = -1 THEN "UNASSIGNED"
    ELSE IF slot = Empty THEN "RESERVED"
    ELSE "OTHER"

Life(p) ==
    IF list_index[p] >= 0 /\ SlotIn(g_internal, J_internal, p, list_index[p]) = Holds(p)
    THEN "REALIZED"
    ELSE LifeState(list_index[p], SlotIn(g_internal, J_internal, p, list_index[p]))

LifeNext(p) ==
    IF list_index'[p] >= 0 /\ SlotIn(g_internal', J_internal', p, list_index'[p]) = Holds(p)
    THEN "REALIZED"
    ELSE LifeState(list_index'[p], SlotIn(g_internal', J_internal', p, list_index'[p]))

\* C10: every penalty starts UNASSIGNED; its clear_penalty takes it to
\* RESERVED (list_index >= 0, the slot there empty), its _add_penalty_to_pool
\* to REALIZED (the slot there holds it); list_index is assigned by
\* clear_penalty only, and once >= 0 it never changes. While the penalties
\* take their two steps one penalty at a time, the state read from the data
\* changes by UNASSIGNED -> RESERVED, RESERVED -> REALIZED and
\* REALIZED -> RESERVED only.
C10_Lifecycle ==
    /\ \A p \in Penalties : list_index[p] = -1
    /\ [][\A p \in Penalties :
            /\ list_index[p] >= 0 => list_index'[p] = list_index[p]
            /\ list_index'[p] # list_index[p] => Clears(p)
            /\ Clears(p) => LifeNext(p) = "RESERVED"
            /\ Adds(p) => LifeNext(p) = "REALIZED"
            /\ ~overlapped' =>
                  \/ Life(p) = LifeNext(p)
                  \/ /\ Clears(p)
                     /\ <<Life(p), LifeNext(p)>> \in
                            {<<"UNASSIGNED", "RESERVED">>, <<"REALIZED", "RESERVED">>}
                  \/ Adds(p) /\ <<Life(p), LifeNext(p)>> = <<"RESERVED", "REALIZED">>]_vars

\* An objective in its second pass (RESERVED again, in an earlier slot than
\* the installed penalty q), the steps taken one penalty at a time.
C10_Witness ==
    /\ ~overlapped
    /\ \E p, q \in Penalties :
          /\ option[p].cls = "MultinodeObjective"
          /\ PoolOf(p) = PoolOf(q)
          /\ list_index[p] >= 0 /\ list_index[q] > list_index[p]
          /\ Life(p) = "RESERVED" /\ pc[p] = "add"
          /\ Life(q) = "REALIZED"

(* C5 *)
Constructs == call.op \in {"MultinodePenalty", "MultinodeObjective"}

\* A node the specification allows: one of the four markers or a
\* non-negative integer (True is the integer 1).
IsMarkerOrNonNegativeInt(node) ==
    \/ node.kind = "Node" /\ node.name \in {"START", "MID", "PENULTIMATE", "END"}
    \/ node.kind \in {"int", "bool"} /\ node.val >= 0

\* A node the code allows: one of the four markers or an int of any sign.
IsMarkerOrInt(node) ==
    \/ node.kind = "Node" /\ node.name \in {"START", "MID", "PENULTIMATE", "END"}
    \/ node.kind \in {"int", "bool"}

\* C5 as stated: construction succeeds when both nodes are one of the four
\* markers or a non-negative integer, and fails with NotImplementedError for
\* any other value, a negative integer included.
C5_NonNegativeNodesOnly ==
    Constructs =>
        IF IsMarkerOrNonNegativeInt(call.first_node) /\ IsMarkerOrNonNegativeInt(call.second_node)
        THEN raised = NoError /\ option[Self] # NoObject
        ELSE raised.type = "NotImplementedError" /\ option[Self] = NoObject

\* C5 amended: construction succeeds, keeping the two nodes, when both are
\* one of the four markers or an int of any sign, and fails with
\* NotImplementedError, leaving no object, for any other value of either
\* node (a string, a float, another member of Node).
C5_NodeValidation ==
    Constructs =>
        IF IsMarkerOrInt(call.first_node) /\ IsMarkerOrInt(call.second_node)
        THEN /\ raised = NoError
             /\ option[Self] # NoObject
             /\ option[Self].first_node = call.first_node
             /\ option[Self].second_node = call.second_node
        ELSE raised.type = "NotImplementedError" /\ option[Self] = NoObject

\* A penalty was constructed with a negative integer as its second node.
C5_Witness ==
    /\ call.op = "MultinodePenalty"
    /\ raised = NoError
    /\ option[Self] # NoObject
    /\ option[Self].first_node = NodeMarker("END")
    /\ option[Self].second_node = IntNode(-1)

(* C6, C7 *)
Prepared == call.op = "prepare_multinode_penalties"

\* Entry i of the list.
Entry(i) == option[options[i]]

\* An entry with a phase index that is negative or >= n_phases.
InvalidEntry(mnc, n_phases) ==
    \/ mnc.phase_first_idx < 0 \/ mnc.phase_first_idx >= n_phases
    \/ mnc.phase_second_idx < 0 \/ mnc.phase_second_idx >= n_phases

\* C6: prepare fails and returns no list if any entry has a phase index that
\* is negative or >= n_phases; otherwise it succeeds and returns the entries
\* in list order, as many as were added.
C6_PrepareValidates ==
    Prepared =>
        IF \E i \in 1..Len(options) : InvalidEntry(Entry(i), call.n_phases)
        THEN raised.type = "RuntimeError" /\ ~returned.is_list
        ELSE /\ raised = NoError
             /\ returned.is_list
             /\ Len(returned.list) = Len(options)
             /\ \A i \in 1..Len(options) : returned.list[i] = options[i]

\* prepare returned a list of two different entries, the second of them
\* using the highest phase of the problem.
C6_Witness ==
    /\ Prepared
    /\ returned.is_list
    /\ Len(returned.list) = 2
    /\ Entry(1) # Entry(2)
    /\ Entry(2).phase_second_idx = call.n_phases - 1
    /\ Entry(2).phase_second_idx > 0

\* The first invalid entry in list order.
FirstInvalid ==
    Entry(CHOOSE i \in 1..Len(options) :
            /\ InvalidEntry(Entry(i), call.n_phases)
            /\ \A j \in 1..(i - 1) : ~InvalidEntry(Entry(j), call.n_phases))

Words(msg) == {msg[i] : i \in 1..Len(msg)}

\* C7 as stated: the error names an invalid side of the first invalid entry
\* (first or second), its value, and whether it is out of range or negative.
C7_ErrorNamesSideAndValue ==
    (Prepared /\ raised # NoError) =>
        \E side \in {"first", "second"} :
            LET value == IF side = "first" THEN FirstInvalid.phase_first_idx
                         ELSE FirstInvalid.phase_second_idx
            IN  /\ value < 0 \/ value >= call.n_phases
                /\ side \in Words(raised.msg)
                /\ ToString(value) \in Words(raised.msg)
                /\ (IF value < 0 THEN "positive" ELSE "higher") \in Words(raised.msg)

\* C7 amended: the error is a RuntimeError about the first invalid entry in
\* list order whose message tells only the reason: "higher than the number
\* of phases" when either index of that entry is >= n_phases (the check made
\* first), "need to be positive" otherwise; it names neither the side nor
\* the offending value.
C7_ErrorTellsReasonOnly ==
    (Prepared /\ raised # NoError) =>
        /\ raised.type = "RuntimeError"
        /\ raised.msg =
              IF \/ FirstInvalid.phase_first_idx >= call.n_phases
                 \/ FirstInvalid.phase_second_idx >= call.n_phases
              THEN MsgHigher ELSE MsgPositive
        /\ Words(raised.msg) \cap
              {"first", "second", ToString(FirstInvalid.phase_first_idx),
               ToString(FirstInvalid.phase_second_idx)} = {}

\* prepare failed on a second entry whose first index is negative and whose
\* second index is n_phases: the message is the out-of-range one.
C7_Witness ==
    /\ Prepared
    /\ Len(options) = 2
    /\ ~InvalidEntry(Entry(1), call.n_phases)
    /\ Entry(2).phase_first_idx < 0
    /\ Entry(2).phase_second_idx = call.n_phases
    /\ raised.msg = MsgHigher

(* -------------------- properties of the strategies --------------------- *)
\* The entry of the last call is realized with the strategy of that name.
Realized(name) == call.op = "realize" /\ option[call.p].type = PenaltyFcn(name)

\* The mapped state vectors of the last realize call: the pre states at the
\* end of the interval through to_second, the post states at its start
\* through to_first.
MappedPre == Mapping_map(call.states_mapping.to_second, call.nlp_pre.states.cx_end)
MappedPost == Mapping_map(call.states_mapping.to_first, call.nlp_post.states.cx)

\* C11: EQUALITY on mapped pre and post vectors of one shape returns the
\* residual whose row i is pre[i] - post[i], all zero when the vectors are
\* equal; on mapped vectors of different shapes it raises the
\* dimension-mismatch RuntimeError (which tells to use a custom transition or
\* to supply states_mapping) and returns no residual.
C11_EqualityResidual ==
    Realized("EQUALITY") =>
        IF Len(MappedPre) = Len(MappedPost)
        THEN /\ raised = NoError
             /\ returned.is_residual
             /\ Len(returned.residual) = Len(MappedPre)
             /\ \A i \in 1..Len(MappedPre) : returned.residual[i] = MappedPre[i] - MappedPost[i]
             /\ MappedPre = MappedPost => \A i \in 1..Len(MappedPre) : returned.residual[i] = 0
        ELSE /\ raised.type = "RuntimeError"
             /\ raised.msg = MsgContinuity
             /\ raised.args = <<<<Len(MappedPre), 1>>, <<Len(MappedPost), 1>>>>
             /\ returned = NoResidual

\* EQUALITY returned a residual of two rows, one of them not zero.
C11_Witness ==
    /\ Realized("EQUALITY")
    /\ raised = NoError
    /\ returned.is_residual
    /\ Len(returned.residual) = 2
    /\ \E i \in 1..2 : returned.residual[i] # 0
    /\ \E i \in 1..2 : returned.residual[i] = 0

\* The entry the last add call created.
Added == option[options[Len(options)]]

\* C12: MultinodePenaltyList.add with a value that is no MultinodePenaltyFcn
\* creates an entry of strategy CUSTOM whose custom_function is that value;
\* realizing such an entry calls the function once, with the penalty, the
\* pre context, the post context and the extra keyword parameters, and
\* returns the value of that call.
C12_CustomCoupling ==
    /\ (call.op = "add" /\ ~IsMultinodePenaltyFcn(call.multinode_penalty)) =>
           /\ raised = NoError
           /\ Added.type = PenaltyFcn("CUSTOM")
           /\ Added.custom_function = call.multinode_penalty
    /\ (Realized("CUSTOM") /\ option[call.p].custom_function \in UserFcns) =>
           LET fn == option[call.p].custom_function
               args == <<WithStatesMapping(option[call.p], call.states_mapping),
                         call.nlp_pre, call.nlp_post>>
           IN  /\ raised = NoError
               /\ call.invoked = <<[fn |-> fn, args |-> args, kwargs |-> call.extra_params]>>
               /\ returned.is_residual
               /\ returned.residual = ResultOf(fn, args, call.extra_params)

\* The entry added with the user function g was realized with an extra
\* keyword parameter.
C12_Witness ==
    /\ Realized("CUSTOM")
    /\ option[call.p].custom_function = Callable("g")
    /\ call.extra_params # <<>>
    /\ Len(call.invoked) = 1
    /\ returned.is_residual

(* ------------------ properties of the entries of a list ---------------- *)
\* C13: every entry of a MultinodePenaltyList or a MultinodeObjectiveList
\* carries the weight w its add call was given, and after a
\* prepare_multinode_penalties that raised nothing the base of an entry added
\* with w # 0 is the Mayer function, while the base of an entry added with
\* w = 0 was not written (it is still None).
C13_MayerTagging ==
    /\ \A i \in 1..Len(Given) : Entry(i).weight = Given[i]
    /\ (Prepared /\ raised = NoError) =>
           \A i \in 1..Len(options) :
               base[options[i]] = IF Given[i] # 0 THEN "MayerFunction" ELSE None

\* The same, for the entries of a MultinodePenaltyList only.
C13_MayerTaggingOfPenalties == list_cls = "MultinodePenaltyList" => C13_MayerTagging

\* The same, with the weight the entry carries when prepare reads it in
\* place of the weight given to add.
C13_MayerTaggingOfCarriedWeight ==
    (Prepared /\ raised = NoError) =>
        \A i \in 1..Len(options) :
            base[options[i]] = IF Entry(i).weight # 0 THEN "MayerFunction" ELSE None

\* The value the last add call was given, and whether it is a member of the
\* enum of the list it was given to.
Passed ==
    IF list_cls = "MultinodePenaltyList" THEN call.multinode_penalty
    ELSE call.multinode_objective
Recognized ==
    IF list_cls = "MultinodePenaltyList" THEN IsMultinodePenaltyFcn(Passed)
    ELSE IsMultinodeObjectiveFcn(Passed)

\* C14: after add on a MultinodePenaltyList or a MultinodeObjectiveList, the
\* strategy of the new entry is the tag that was passed (EQUALITY,
\* COM_EQUALITY, COM_VELOCITY_EQUALITY or CUSTOM) when a tag was passed, and
\* it is CUSTOM when the value passed is no tag.
C14_StrategyKept ==
    call.op = "add" =>
        Added.type.name = IF Recognized THEN Passed.name ELSE "CUSTOM"

\* The same, for the entries of a MultinodePenaltyList only.
C14_StrategyKeptOfPenalties == list_cls = "MultinodePenaltyList" => C14_StrategyKept

(* ------------- properties of the centre-of-mass strategies ------------- *)
\* The states of the two contexts of the last realize call at the evaluation
\* points of EQUALITY: the pre states at the end of the interval, the post
\* states at its start.
PreAtEnd == call.nlp_pre.states.cx_end
PostAtStart == call.nlp_post.states.cx

\* The residual of COM_EQUALITY and of COM_VELOCITY_EQUALITY at the states
\* pre of the pre node and post of the post node.
ComResidualAt(pre, post) ==
    TermMinus(CoM(call.nlp_pre.model, Rows(pre, call.nlp_pre.states.q.index)),
              CoM(call.nlp_post.model, Rows(post, call.nlp_post.states.q.index)))
ComVelocityResidualAt(pre, post) ==
    TermMinus(CoMdot(call.nlp_pre.model, Rows(pre, call.nlp_pre.states.q.index),
                     Rows(pre, call.nlp_pre.states.qdot.index)),
              CoMdot(call.nlp_post.model, Rows(post, call.nlp_post.states.q.index),
                     Rows(post, call.nlp_post.states.qdot.index)))

\* COM_VELOCITY_EQUALITY returns its residual at the evaluation points of
\* EQUALITY.
ComVelocityAtEqualityPoints ==
    (Realized("COM_VELOCITY_EQUALITY") /\ raised = NoError) =>
        returned.residual = ComVelocityResidualAt(PreAtEnd, PostAtStart)

\* COM_EQUALITY returns its residual at the start of the interval of the pre
\* node.
ComAtStartOfPre ==
    (Realized("COM_EQUALITY") /\ raised = NoError) =>
        returned.residual = ComResidualAt(call.nlp_pre.states.cx, PostAtStart)

\* C15: the residual COM_EQUALITY returns and the residual
\* COM_VELOCITY_EQUALITY returns are evaluated at the end-of-interval states
\* of the pre node and at the start-of-interval states of the post node, the
\* evaluation points of EQUALITY.
C15_ComEvaluationPoints ==
    /\ (Realized("COM_EQUALITY") /\ raised = NoError) =>
           returned.residual = ComResidualAt(PreAtEnd, PostAtStart)
    /\ ComVelocityAtEqualityPoints

(* ------------------- the frame of the pool operations ------------------ *)
\* Slot i of the pool of penalty 1 is the same before and after the step.
Kept(i) == At(TargetPool', i) = At(TargetPool, i)

\* The pools penalty 1 is not routed to are the same before and after.
OtherPoolsKept ==
    \A o \in Owners :
        /\ PoolOf(Self) # <<"g", o>> => g_internal'[o] = g_internal[o]
        /\ PoolOf(Self) # <<"J", o>> => J_internal'[o] = J_internal[o]

\* clear_penalty of an unassigned penalty appends at most one slot, empty.
AppendsAtMostOneEmpty ==
    (call'.op = "clear_penalty" /\ list_index[Self] = -1) =>
        /\ Len(TargetPool') <= Len(TargetPool) + 1
        /\ Len(TargetPool') = Len(TargetPool) + 1 => At(TargetPool', Len(TargetPool)) = Empty

\* C16: from any pool content and any list_index, a clear_penalty or
\* _add_penalty_to_pool call on a penalty leaves every slot the pool already
\* had, other than the slot at the penalty's list_index, as it was (with
\* list_index = -1: every slot), so that a slot holding another penalty
\* changes only when it is at that list_index; clear_penalty with
\* list_index = -1 appends at most one empty slot.
C16_FrameAtAnyIndex ==
    [][/\ \A i \in 0..(Len(TargetPool) - 1) : i # list_index[Self] => Kept(i)
       /\ AppendsAtMostOneEmpty
       /\ OtherPoolsKept]_vars

\* C16, amended: the frame holds for clear_penalty with any list_index and
\* for _add_penalty_to_pool with list_index >= 0; _add_penalty_to_pool with
\* list_index = -1 writes the penalty to the last slot of the pool, whatever
\* it holds, and leaves the slots before it, or raises IndexError and changes
\* nothing when the pool is empty.
C16_FrameAtReservedIndex ==
    [][/\ IF call'.op = "_add_penalty_to_pool" /\ list_index[Self] = -1
          THEN /\ Len(TargetPool') = Len(TargetPool)
               /\ \A i \in 0..(Len(TargetPool) - 2) : Kept(i)
               /\ IF Len(TargetPool) = 0
                  THEN raised'.type = "IndexError"
                  ELSE /\ raised' = NoError
                       /\ At(TargetPool', Len(TargetPool) - 1) = Holds(Self)
          ELSE /\ Len(TargetPool') >= Len(TargetPool)
               /\ \A i \in 0..(Len(TargetPool) - 1) : i # list_index[Self] => Kept(i)
       /\ AppendsAtMostOneEmpty
       /\ OtherPoolsKept]_vars

\* _add_penalty_to_pool has written penalty 1 to its slot in a pool that
\* holds penalty 2 in another slot.
C16_Witness ==
    /\ call.op = "_add_penalty_to_pool"
    /\ call.index >= 0 /\ call.index < call.len
    /\ At(TargetPool, call.index) = Holds(Self)
    /\ \E i \in 0..(call.len - 1) : i # call.index /\ At(TargetPool, i) = Holds(2)

====
